---- MODULE Spec2Model ----
(***************************************************************************)
(* The HTTP layer of api_yamdb (api/views.py) as a state machine.  The     *)
(* state is the persisted entities (User, Title, Category, Genre, Review,  *)
(* Comment), the set of users holding a valid token, and the last request  *)
(* together with its response.  Every action is one request handled by one *)
(* view, following the order in which the framework runs it: permission    *)
(* check, lookup of the scoped object, object permission check, body       *)
(* validation, save.                                                       *)
(***************************************************************************)
EXTENDS Integers, FiniteSets, Sequences, TLC

\* ------------------------------------------------------------------ bounds

\* Primary keys of Title, Review and Comment are handed out in order and
\* never reused; creation stops at these ids.
MaxTitleId == 2
MaxReviewId == 1
MaxCommentId == 1
\* Confirmation codes are drawn from 1..NumCodes; 0 stands for no code.
NumCodes == 2

TitleIds == 1..MaxTitleId
ReviewIds == 1..MaxReviewId
CommentIds == 1..MaxCommentId
Codes == 1..NumCodes
\* The addresses a client may give, and the titles of the content scenario.
Emails == {"e1", "e2"}
Catalogue == {1, 2}

Anon == "anon"
Roles == {"user", "moderator", "admin"}
\* The users of the content scenario, and the names a client may register.
Staff == {"adm", "mod", "u1"}
RegNames == {"u1", "u2"}
Usernames == Staff \cup RegNames
Slugs == {"s1"}
Texts == {"a", "b"}

VARIABLES users, tokens, redeemed, titles, categories, genres, reviews,
          comments, nextTitleId, nextReviewId, nextCommentId, last

db == <<users, titles, categories, genres, reviews, comments>>
ids == <<nextTitleId, nextReviewId, nextCommentId>>
vars == <<users, tokens, redeemed, titles, categories, genres, reviews,
          comments, nextTitleId, nextReviewId, nextCommentId, last>>

\* --------------------------------------------------------------- responses

HTTP_200_OK == "ok"
ValidationFailure == "invalid"
AuthorizationFailure == "denied"
NotFound == "not_found"
MethodNotAllowed == "not_allowed"
ServerError == "error"
Failures == {ValidationFailure, AuthorizationFailure, NotFound,
             MethodNotAllowed, ServerError}

NoData == [valid |-> TRUE, text |-> "", author |-> "", parent |-> 0,
           username |-> "", email |-> "", role |-> "", code |-> 0]

\* A request and its response.  user and role are the requester and the role
\* it had when the request arrived; t, r, pk and name are the path
\* arguments; data is the request body; found tells whether the path was
\* resolved and owner is the author of the object it named; created,
\* returned, profile, mailed and token are what the response (or the mail
\* sent) carried; reused tells whether the confirmation code presented had
\* already bought a token.
NoRequest == [view |-> "", action |-> "", user |-> Anon, role |-> "anonymous",
              t |-> 0, r |-> 0, pk |-> 0, name |-> "", data |-> NoData,
              status |-> HTTP_200_OK, found |-> FALSE, owner |-> "",
              created |-> 0, returned |-> {}, profile |-> "", mailed |-> <<>>,
              token |-> "", reused |-> FALSE]

Method(action) ==
    CASE action \in {"list", "retrieve"} -> "GET"
      [] action = "create" -> "POST"
      [] action = "partial_update" -> "PATCH"
      [] action = "destroy" -> "DELETE"

SAFE_METHODS == {"GET"}

\* The requesters a request can come from: nobody, or a user that exists
\* and holds a token.
Requesters == {Anon} \cup (tokens \cap DOMAIN users)

RoleOf(u) == IF u = Anon THEN "anonymous" ELSE users[u].role

\* ------------------------------------------------------------- permissions

IsOwnerAdminModeratorOrReadOnly_has_permission(method, u) ==
    method \in SAFE_METHODS \/ u # Anon

IsOwnerAdminModeratorOrReadOnly_has_object_permission(method, u, author) ==
    \/ method \in SAFE_METHODS
    \/ RoleOf(u) = "admin"
    \/ RoleOf(u) = "moderator"
    \/ (u # Anon /\ u = author)

AdminLevelOrReadOnlyPermission_has_permission(method, u) ==
    method \in SAFE_METHODS \/ RoleOf(u) = "admin"

AdminLevelPermission_has_permission(method, u) ==
    method \in SAFE_METHODS \/ RoleOf(u) = "admin"

UserAccessPermission_has_permission(method, u) ==
    u # Anon

has_permission(cls, method, u) ==
    CASE cls = "IsOwnerAdminModeratorOrReadOnly" ->
            IsOwnerAdminModeratorOrReadOnly_has_permission(method, u)
      [] cls = "AdminLevelOrReadOnlyPermission" ->
            AdminLevelOrReadOnlyPermission_has_permission(method, u)
      [] cls = "AdminLevelPermission" ->
            AdminLevelPermission_has_permission(method, u)
      [] cls = "UserAccessPermission" ->
            UserAccessPermission_has_permission(method, u)
      [] cls = "AllowAny" -> TRUE

has_object_permission(cls, method, u, author) ==
    CASE cls = "IsOwnerAdminModeratorOrReadOnly" ->
            IsOwnerAdminModeratorOrReadOnly_has_object_permission(method, u, author)
      [] cls = "AdminLevelOrReadOnlyPermission" ->
            AdminLevelOrReadOnlyPermission_has_permission(method, u)
      [] cls = "AdminLevelPermission" ->
            AdminLevelPermission_has_permission(method, u)
      [] cls = "UserAccessPermission" ->
            UserAccessPermission_has_permission(method, u)
      [] cls = "AllowAny" -> TRUE

\* ------------------------------------------------------------ persistence

\* Deleting a parent deletes what it owns.
ReviewsWithout(ts) == [r \in {x \in DOMAIN reviews : reviews[x].title \notin ts} |-> reviews[r]]
CommentsLeft(rs) == [c \in {x \in DOMAIN comments : comments[x].review \in DOMAIN rs} |-> comments[c]]

Put(f, k, v) == [x \in DOMAIN f \cup {k} |-> IF x = k THEN v ELSE f[x]]
Drop(f, k) == [x \in DOMAIN f \ {k} |-> f[x]]

\* serializer.save(**kwargs): the keyword arguments of save() override what
\* the validated body holds under the same name.
save(validated_data, kwargs) ==
    [k \in DOMAIN validated_data \cup DOMAIN kwargs |->
        IF k \in DOMAIN kwargs THEN kwargs[k] ELSE validated_data[k]]

\* ----------------------------------------------------------- ReviewViewSet

\* Mutant: reviews guarded like the catalogue.
ReviewViewSet_permission_classes_catalogue == "AdminLevelOrReadOnlyPermission"

ReviewViewSet_permission_classes == "IsOwnerAdminModeratorOrReadOnly"

ReviewViewSet_get_queryset(t) ==
    [found |-> t \in DOMAIN titles,
     rows |-> {x \in DOMAIN reviews : reviews[x].title = t}]

\* Mutant: perform_create leaves the author to the body.
ReviewViewSet_perform_create_no_author(u, t) ==
    [title |-> t]

\* The keyword arguments perform_create hands to serializer.save().
ReviewViewSet_perform_create(u, t) ==
    [author |-> u, title |-> t]

ReviewRequest(action, u, t, pk, data) ==
    [NoRequest EXCEPT !.view = "reviews", !.action = action, !.user = u,
                      !.role = RoleOf(u), !.t = t, !.pk = pk, !.data = data]

\* get_object(): the permission check, then the scoped lookup, then the
\* object permission check.
ReviewViewSet_get_object(method, u, t, pk) ==
    LET qs == ReviewViewSet_get_queryset(t) IN
    IF ~has_permission(ReviewViewSet_permission_classes, method, u)
    THEN AuthorizationFailure
    ELSE IF ~qs.found \/ pk \notin qs.rows THEN NotFound
    ELSE IF ~has_object_permission(ReviewViewSet_permission_classes, method, u,
                                   reviews[pk].author)
    THEN AuthorizationFailure
    ELSE HTTP_200_OK

ReviewList(u, t) ==
    LET qs == ReviewViewSet_get_queryset(t)
        st == IF ~has_permission(ReviewViewSet_permission_classes, "GET", u)
              THEN AuthorizationFailure
              ELSE IF ~qs.found THEN NotFound ELSE HTTP_200_OK
    IN /\ last' = [ReviewRequest("list", u, t, 0, NoData) EXCEPT
                      !.status = st, !.found = qs.found,
                      !.returned = IF st = HTTP_200_OK THEN qs.rows ELSE {}]
       /\ UNCHANGED <<db, ids, tokens, redeemed>>

ReviewRetrieve(u, t, pk) ==
    LET qs == ReviewViewSet_get_queryset(t)
        st == ReviewViewSet_get_object("GET", u, t, pk)
        hit == qs.found /\ pk \in qs.rows
    IN /\ last' = [ReviewRequest("retrieve", u, t, pk, NoData) EXCEPT
                      !.status = st, !.found = hit,
                      !.owner = IF hit THEN reviews[pk].author ELSE "",
                      !.returned = IF st = HTTP_200_OK THEN {pk} ELSE {}]
       /\ UNCHANGED <<db, ids, tokens, redeemed>>

\* create(): the permission check, the validation of the body, then
\* perform_create, which resolves the title of the path and saves.
ReviewCreate(u, t, data) ==
    LET st == IF ~has_permission(ReviewViewSet_permission_classes, "POST", u)
              THEN AuthorizationFailure
              ELSE IF ~data.valid THEN ValidationFailure
              ELSE IF t \notin DOMAIN titles THEN NotFound
              ELSE HTTP_200_OK
        row == save([author |-> data.author, title |-> data.parent],
                    ReviewViewSet_perform_create(u, t))
    IN /\ st = HTTP_200_OK => nextReviewId <= MaxReviewId
       /\ last' = [ReviewRequest("create", u, t, 0, data) EXCEPT
                      !.status = st, !.found = t \in DOMAIN titles,
                      !.created = IF st = HTTP_200_OK THEN nextReviewId ELSE 0]
       /\ IF st = HTTP_200_OK
          THEN /\ reviews' = Put(reviews, nextReviewId, row)
               /\ nextReviewId' = nextReviewId + 1
          ELSE UNCHANGED <<reviews, nextReviewId>>
       /\ UNCHANGED <<users, titles, categories, genres, comments,
                      nextTitleId, nextCommentId, tokens, redeemed>>

\* Of a review the state holds the title and the author, which no update
\* writes; the text and score an update writes are not part of it.
ReviewPartialUpdate(u, t, pk, data) ==
    LET qs == ReviewViewSet_get_queryset(t)
        hit == qs.found /\ pk \in qs.rows
        got == ReviewViewSet_get_object("PATCH", u, t, pk)
        st == IF got # HTTP_200_OK THEN got
              ELSE IF ~data.valid THEN ValidationFailure ELSE HTTP_200_OK
    IN /\ last' = [ReviewRequest("partial_update", u, t, pk, data) EXCEPT
                      !.status = st, !.found = hit,
                      !.owner = IF hit THEN reviews[pk].author ELSE ""]
       /\ UNCHANGED <<db, ids, tokens, redeemed>>

ReviewDestroy(u, t, pk) ==
    LET qs == ReviewViewSet_get_queryset(t)
        hit == qs.found /\ pk \in qs.rows
        st == ReviewViewSet_get_object("DELETE", u, t, pk)
    IN /\ last' = [ReviewRequest("destroy", u, t, pk, NoData) EXCEPT
                      !.status = st, !.found = hit,
                      !.owner = IF hit THEN reviews[pk].author ELSE ""]
       /\ IF st = HTTP_200_OK
          THEN /\ reviews' = Drop(reviews, pk)
               /\ comments' = CommentsLeft(Drop(reviews, pk))
          ELSE UNCHANGED <<reviews, comments>>
       /\ UNCHANGED <<users, titles, categories, genres, ids, tokens, redeemed>>

\* ---------------------------------------------------------- CommentViewSet

CommentViewSet_permission_classes == "IsOwnerAdminModeratorOrReadOnly"

\* Mutant: the review is looked up by its id alone.
CommentViewSet_get_review_by_id(t, r) ==
    r \in DOMAIN reviews

\* get_object_or_404(Review, id=review_id, title=title_id)
CommentViewSet_get_review(t, r) ==
    r \in DOMAIN reviews /\ reviews[r].title = t

CommentViewSet_get_queryset(t, r) ==
    [found |-> CommentViewSet_get_review(t, r),
     rows |-> IF CommentViewSet_get_review(t, r)
              THEN {x \in DOMAIN comments : comments[x].review = r}
              ELSE {}]

\* The keyword arguments perform_create hands to serializer.save().
CommentViewSet_perform_create(u, r) ==
    [author |-> u, review |-> r]

CommentRequest(action, u, t, r, pk, data) ==
    [NoRequest EXCEPT !.view = "comments", !.action = action, !.user = u,
                      !.role = RoleOf(u), !.t = t, !.r = r, !.pk = pk,
                      !.data = data]

CommentViewSet_get_object(method, u, t, r, pk) ==
    LET qs == CommentViewSet_get_queryset(t, r) IN
    IF ~has_permission(CommentViewSet_permission_classes, method, u)
    THEN AuthorizationFailure
    ELSE IF ~qs.found \/ pk \notin qs.rows THEN NotFound
    ELSE IF ~has_object_permission(CommentViewSet_permission_classes, method, u,
                                   comments[pk].author)
    THEN AuthorizationFailure
    ELSE HTTP_200_OK

CommentList(u, t, r) ==
    LET qs == CommentViewSet_get_queryset(t, r)
        st == IF ~has_permission(CommentViewSet_permission_classes, "GET", u)
              THEN AuthorizationFailure
              ELSE IF ~qs.found THEN NotFound ELSE HTTP_200_OK
    IN /\ last' = [CommentRequest("list", u, t, r, 0, NoData) EXCEPT
                      !.status = st, !.found = qs.found,
                      !.returned = IF st = HTTP_200_OK THEN qs.rows ELSE {}]
       /\ UNCHANGED <<db, ids, tokens, redeemed>>

CommentRetrieve(u, t, r, pk) ==
    LET qs == CommentViewSet_get_queryset(t, r)
        st == CommentViewSet_get_object("GET", u, t, r, pk)
        hit == qs.found /\ pk \in qs.rows
    IN /\ last' = [CommentRequest("retrieve", u, t, r, pk, NoData) EXCEPT
                      !.status = st, !.found = hit,
                      !.owner = IF hit THEN comments[pk].author ELSE "",
                      !.returned = IF st = HTTP_200_OK THEN {pk} ELSE {}]
       /\ UNCHANGED <<db, ids, tokens, redeemed>>

CommentCreate(u, t, r, data) ==
    LET st == IF ~has_permission(CommentViewSet_permission_classes, "POST", u)
              THEN AuthorizationFailure
              ELSE IF ~data.valid THEN ValidationFailure
              ELSE IF ~CommentViewSet_get_review(t, r) THEN NotFound
              ELSE HTTP_200_OK
        row == save([author |-> data.author, review |-> data.parent,
                     text |-> data.text],
                    CommentViewSet_perform_create(u, r))
    IN /\ st = HTTP_200_OK => nextCommentId <= MaxCommentId
       /\ last' = [CommentRequest("create", u, t, r, 0, data) EXCEPT
                      !.status = st, !.found = CommentViewSet_get_review(t, r),
                      !.created = IF st = HTTP_200_OK THEN nextCommentId ELSE 0]
       /\ IF st = HTTP_200_OK
          THEN /\ comments' = Put(comments, nextCommentId, row)
               /\ nextCommentId' = nextCommentId + 1
          ELSE UNCHANGED <<comments, nextCommentId>>
       /\ UNCHANGED <<users, titles, categories, genres, reviews,
                      nextTitleId, nextReviewId, tokens, redeemed>>

CommentPartialUpdate(u, t, r, pk, data) ==
    LET qs == CommentViewSet_get_queryset(t, r)
        hit == qs.found /\ pk \in qs.rows
        got == CommentViewSet_get_object("PATCH", u, t, r, pk)
        st == IF got # HTTP_200_OK THEN got
              ELSE IF ~data.valid THEN ValidationFailure ELSE HTTP_200_OK
    IN /\ last' = [CommentRequest("partial_update", u, t, r, pk, data) EXCEPT
                      !.status = st, !.found = hit,
                      !.owner = IF hit THEN comments[pk].author ELSE ""]
       /\ comments' = IF st = HTTP_200_OK
                      THEN [comments EXCEPT ![pk].text = data.text]
                      ELSE comments
       /\ UNCHANGED <<users, titles, categories, genres, reviews, ids,
                      tokens, redeemed>>

CommentDestroy(u, t, r, pk) ==
    LET qs == CommentViewSet_get_queryset(t, r)
        hit == qs.found /\ pk \in qs.rows
        st == CommentViewSet_get_object("DELETE", u, t, r, pk)
    IN /\ last' = [CommentRequest("destroy", u, t, r, pk, NoData) EXCEPT
                      !.status = st, !.found = hit,
                      !.owner = IF hit THEN comments[pk].author ELSE ""]
       /\ comments' = IF st = HTTP_200_OK THEN Drop(comments, pk) ELSE comments
       /\ UNCHANGED <<users, titles, categories, genres, reviews, ids,
                      tokens, redeemed>>

\* ------------------------------------------------------------ TitleViewSet

\* Mutant: titles guarded like reviews.
TitleViewSet_permission_classes_reviews == "IsOwnerAdminModeratorOrReadOnly"

TitleViewSet_permission_classes == "AdminLevelOrReadOnlyPermission"

TitleRequest(action, u, pk, data) ==
    [NoRequest EXCEPT !.view = "titles", !.action = action, !.user = u,
                      !.role = RoleOf(u), !.pk = pk, !.data = data]

TitleViewSet_get_object(method, u, pk) ==
    IF ~has_permission(TitleViewSet_permission_classes, method, u)
    THEN AuthorizationFailure
    ELSE IF pk \notin DOMAIN titles THEN NotFound
    ELSE IF ~has_object_permission(TitleViewSet_permission_classes, method, u, "")
    THEN AuthorizationFailure
    ELSE HTTP_200_OK

TitleList(u) ==
    LET st == IF has_permission(TitleViewSet_permission_classes, "GET", u)
              THEN HTTP_200_OK ELSE AuthorizationFailure
    IN /\ last' = [TitleRequest("list", u, 0, NoData) EXCEPT
                      !.status = st, !.found = TRUE,
                      !.returned = IF st = HTTP_200_OK THEN DOMAIN titles ELSE {}]
       /\ UNCHANGED <<db, ids, tokens, redeemed>>

TitleRetrieve(u, pk) ==
    LET st == TitleViewSet_get_object("GET", u, pk)
    IN /\ last' = [TitleRequest("retrieve", u, pk, NoData) EXCEPT
                      !.status = st, !.found = pk \in DOMAIN titles,
                      !.returned = IF st = HTTP_200_OK THEN {pk} ELSE {}]
       /\ UNCHANGED <<db, ids, tokens, redeemed>>

TitleCreate(u, data) ==
    LET st == IF ~has_permission(TitleViewSet_permission_classes, "POST", u)
              THEN AuthorizationFailure
              ELSE IF ~data.valid THEN ValidationFailure ELSE HTTP_200_OK
    IN /\ st = HTTP_200_OK => nextTitleId <= MaxTitleId
       /\ last' = [TitleRequest("create", u, 0, data) EXCEPT
                      !.status = st, !.found = TRUE,
                      !.created = IF st = HTTP_200_OK THEN nextTitleId ELSE 0]
       /\ IF st = HTTP_200_OK
          THEN /\ titles' = Put(titles, nextTitleId, [name |-> data.text])
               /\ nextTitleId' = nextTitleId + 1
          ELSE UNCHANGED <<titles, nextTitleId>>
       /\ UNCHANGED <<users, categories, genres, reviews, comments,
                      nextReviewId, nextCommentId, tokens, redeemed>>

TitlePartialUpdate(u, pk, data) ==
    LET got == TitleViewSet_get_object("PATCH", u, pk)
        st == IF got # HTTP_200_OK THEN got
              ELSE IF ~data.valid THEN ValidationFailure ELSE HTTP_200_OK
    IN /\ last' = [TitleRequest("partial_update", u, pk, data) EXCEPT
                      !.status = st, !.found = pk \in DOMAIN titles]
       /\ titles' = IF st = HTTP_200_OK
                    THEN [titles EXCEPT ![pk].name = data.text]
                    ELSE titles
       /\ UNCHANGED <<users, categories, genres, reviews, comments, ids,
                      tokens, redeemed>>

TitleDestroy(u, pk) ==
    LET st == TitleViewSet_get_object("DELETE", u, pk)
    IN /\ last' = [TitleRequest("destroy", u, pk, NoData) EXCEPT
                      !.status = st, !.found = pk \in DOMAIN titles]
       /\ IF st = HTTP_200_OK
          THEN /\ titles' = Drop(titles, pk)
               /\ reviews' = ReviewsWithout({pk})
               /\ comments' = CommentsLeft(ReviewsWithout({pk}))
          ELSE UNCHANGED <<titles, reviews, comments>>
       /\ UNCHANGED <<users, categories, genres, ids, tokens, redeemed>>

\* ------------------------------------------- CategoryViewSet, GenreViewSet

CategoryViewSet_permission_classes == "AdminLevelOrReadOnlyPermission"
GenreViewSet_permission_classes == "AdminLevelOrReadOnlyPermission"

\* ListCreateDestroyViewSet: list, create and destroy are routed; any other
\* method reaches no handler.
ListCreateDestroyViewSet_actions == {"list", "create", "destroy"}

SlugRequest(view, action, u, slug, data) ==
    [NoRequest EXCEPT !.view = view, !.action = action, !.user = u,
                      !.role = RoleOf(u), !.name = slug, !.data = data]

\* One request on a slug-keyed collection `rows`, which it leaves as `out`.
SlugViewSet(view, cls, rows, out, action, u, slug, data) ==
    LET method == Method(action)
        st == IF ~has_permission(cls, method, u) THEN AuthorizationFailure
              ELSE IF action \notin ListCreateDestroyViewSet_actions
              THEN MethodNotAllowed
              ELSE IF action = "list" THEN HTTP_200_OK
              ELSE IF action = "create"
              THEN IF data.valid /\ slug \notin rows
                   THEN HTTP_200_OK ELSE ValidationFailure
              ELSE IF slug \notin rows THEN NotFound
              ELSE IF ~has_object_permission(cls, method, u, "")
              THEN AuthorizationFailure
              ELSE HTTP_200_OK
    IN /\ last' = [SlugRequest(view, action, u, slug, data) EXCEPT
                      !.status = st,
                      !.found = action \in {"list", "create"} \/ slug \in rows]
       /\ out = IF st # HTTP_200_OK \/ action = "list" THEN rows
                ELSE IF action = "create" THEN rows \cup {slug}
                ELSE rows \ {slug}

CategoryViewSet(action, u, slug, data) ==
    /\ SlugViewSet("categories", CategoryViewSet_permission_classes,
                   categories, categories', action, u, slug, data)
    /\ UNCHANGED <<users, titles, genres, reviews, comments, ids, tokens,
                   redeemed>>

GenreViewSet(action, u, slug, data) ==
    /\ SlugViewSet("genres", GenreViewSet_permission_classes,
                   genres, genres', action, u, slug, data)
    /\ UNCHANGED <<users, titles, categories, reviews, comments, ids, tokens,
                   redeemed>>

\* ------------------------------------------------------------- UserViewSet

UserViewSet_permission_classes == "AdminLevelPermission"
UserViewSet_serializer_class == "UserNotInfoSerializer"

\* The fields of User a serializer lets the client write.
writable_fields(serializer_class) ==
    CASE serializer_class = "UserNotInfoSerializer" -> {"email", "role"}
      [] serializer_class = "UserSerializer" -> {"email"}
      [] serializer_class = "CreateUserSerializer" -> {"username", "email"}

EmailTaken(email, except) ==
    email # "" /\ \E x \in DOMAIN users \ {except} : users[x].email = email

\* What a partial update through `serializer_class` makes of user `name`.
\* A field the body leaves out ("") keeps its value.
UserUpdated(serializer_class, name, data) ==
    [users[name] EXCEPT
        !.email = IF "email" \in writable_fields(serializer_class) /\ data.email # ""
                  THEN data.email ELSE @,
        !.role = IF "role" \in writable_fields(serializer_class) /\ data.role # ""
                 THEN data.role ELSE @]

UserRequest(view, action, u, name, data) ==
    [NoRequest EXCEPT !.view = view, !.action = action, !.user = u,
                      !.role = RoleOf(u), !.name = name, !.data = data]

UserViewSet_get_object(method, u, name) ==
    IF ~has_permission(UserViewSet_permission_classes, method, u)
    THEN AuthorizationFailure
    ELSE IF name \notin DOMAIN users THEN NotFound
    ELSE IF ~has_object_permission(UserViewSet_permission_classes, method, u, "")
    THEN AuthorizationFailure
    ELSE HTTP_200_OK

\* Deleting a user deletes the reviews and comments the user wrote.
ReviewsNotBy(name) == [r \in {x \in DOMAIN reviews : reviews[x].author # name} |-> reviews[r]]
CommentsNotBy(name, rs) == [c \in {x \in DOMAIN comments : comments[x].author # name /\ comments[x].review \in DOMAIN rs} |-> comments[c]]

UserList(u) ==
    LET st == IF has_permission(UserViewSet_permission_classes, "GET", u)
              THEN HTTP_200_OK ELSE AuthorizationFailure
    IN /\ last' = [UserRequest("users", "list", u, "", NoData) EXCEPT
                      !.status = st, !.found = TRUE]
       /\ UNCHANGED <<db, ids, tokens, redeemed>>

UserRetrieve(u, name) ==
    LET st == UserViewSet_get_object("GET", u, name)
    IN /\ last' = [UserRequest("users", "retrieve", u, name, NoData) EXCEPT
                      !.status = st, !.found = name \in DOMAIN users,
                      !.profile = IF st = HTTP_200_OK THEN name ELSE ""]
       /\ UNCHANGED <<db, ids, tokens, redeemed>>

\* A user the administrator creates holds no confirmation code until a
\* registration issues one.
UserCreate(u, data) ==
    LET st == IF ~has_permission(UserViewSet_permission_classes, "POST", u)
              THEN AuthorizationFailure
              ELSE IF /\ data.valid
                      /\ data.role \in Roles
                      /\ data.username \notin DOMAIN users
                      /\ ~EmailTaken(data.email, "")
              THEN HTTP_200_OK ELSE ValidationFailure
    IN /\ last' = [UserRequest("users", "create", u, "", data) EXCEPT
                      !.status = st, !.found = TRUE,
                      !.profile = IF st = HTTP_200_OK THEN data.username ELSE ""]
       /\ users' = IF st = HTTP_200_OK
                   THEN Put(users, data.username,
                            [role |-> data.role, email |-> data.email,
                             code |-> 0])
                   ELSE users
       /\ UNCHANGED <<titles, categories, genres, reviews, comments, ids,
                      tokens, redeemed>>

UserPartialUpdate(u, name, data) ==
    LET got == UserViewSet_get_object("PATCH", u, name)
        st == IF got # HTTP_200_OK THEN got
              ELSE IF data.valid /\ ~EmailTaken(data.email, name)
              THEN HTTP_200_OK ELSE ValidationFailure
    IN /\ last' = [UserRequest("users", "partial_update", u, name, data) EXCEPT
                      !.status = st, !.found = name \in DOMAIN users,
                      !.profile = IF st = HTTP_200_OK THEN name ELSE ""]
       /\ users' = IF st = HTTP_200_OK
                   THEN [users EXCEPT
                           ![name] = UserUpdated(UserViewSet_serializer_class,
                                                 name, data)]
                   ELSE users
       /\ UNCHANGED <<titles, categories, genres, reviews, comments, ids,
                      tokens, redeemed>>

UserDestroy(u, name) ==
    LET st == UserViewSet_get_object("DELETE", u, name)
    IN /\ last' = [UserRequest("users", "destroy", u, name, NoData) EXCEPT
                      !.status = st, !.found = name \in DOMAIN users]
       /\ IF st = HTTP_200_OK
          THEN /\ users' = Drop(users, name)
               /\ tokens' = tokens \ {name}
               /\ redeemed' = redeemed \ {name}
               /\ reviews' = ReviewsNotBy(name)
               /\ comments' = CommentsNotBy(name, ReviewsNotBy(name))
          ELSE UNCHANGED <<users, tokens, redeemed, reviews, comments>>
       /\ UNCHANGED <<titles, categories, genres, ids>>

\* -------------------------------------------------- GetPersonalInfoViewSet

\* Mutant: personal information open to anyone.
GetPersonalInfoViewSet_permission_classes_open == "AllowAny"

GetPersonalInfoViewSet_permission_classes == "UserAccessPermission"
\* Mutant: personal information written through the serializer of the user
\* collection.
GetPersonalInfoViewSet_serializer_class_collection == "UserNotInfoSerializer"

GetPersonalInfoViewSet_serializer_class == "UserSerializer"

MeRetrieve(u) ==
    LET st == IF has_permission(GetPersonalInfoViewSet_permission_classes, "GET", u)
              THEN HTTP_200_OK ELSE AuthorizationFailure
    IN /\ last' = [UserRequest("me", "retrieve", u, "", NoData) EXCEPT
                      !.status = st, !.found = u # Anon,
                      !.profile = IF st = HTTP_200_OK THEN u ELSE ""]
       /\ UNCHANGED <<db, ids, tokens, redeemed>>

MePartialUpdate(u, data) ==
    LET st == IF ~has_permission(GetPersonalInfoViewSet_permission_classes, "PATCH", u)
              THEN AuthorizationFailure
              ELSE IF data.valid /\ ~EmailTaken(data.email, u)
              THEN HTTP_200_OK ELSE ValidationFailure
    IN /\ last' = [UserRequest("me", "partial_update", u, "", data) EXCEPT
                      !.status = st, !.found = u # Anon,
                      !.profile = IF st = HTTP_200_OK THEN u ELSE ""]
       /\ users' = IF st = HTTP_200_OK
                   THEN [users EXCEPT
                           ![u] = UserUpdated(GetPersonalInfoViewSet_serializer_class,
                                              u, data)]
                   ELSE users
       /\ UNCHANGED <<titles, categories, genres, reviews, comments, ids,
                      tokens, redeemed>>

\* -------------------------------------------------- RegisterNewUserAPIView

RegisterNewUserAPIView_permission_classes == "AllowAny"

\* CreateUserSerializer: a new username with an unused address, or the
\* username and address of a user that exists.
CreateUserSerializer_is_valid(data) ==
    /\ data.valid
    /\ IF data.username \in DOMAIN users
       THEN users[data.username].email = data.email
       ELSE ~EmailTaken(data.email, "")

\* CreateUserSerializer.save(): the user is created, or found again, and
\* holds the code generated for this registration.
CreateUserSerializer_save(data, code) ==
    IF data.username \in DOMAIN users
    THEN [users EXCEPT ![data.username].code = code]
    ELSE Put(users, data.username,
             [role |-> "user", email |-> data.email, code |-> code])

\* Mutant: the code is read before save(), from the user as it was.
RegisterNewUserAPIView_mail_stale(saved, data) ==
    IF data.username \in DOMAIN users
    THEN <<users[data.username].email, users[data.username].code>>
    ELSE <<saved[data.username].email, saved[data.username].code>>

\* The message send_mail is given: the recipient and the code in its body,
\* read from the user that save() returned.
RegisterNewUserAPIView_mail(saved, data) ==
    <<saved[data.username].email, saved[data.username].code>>

RegisterNewUserAPIView_post(u, data, code, delivered) ==
    LET ok == /\ has_permission(RegisterNewUserAPIView_permission_classes, "POST", u)
              /\ CreateUserSerializer_is_valid(data)
        saved == CreateUserSerializer_save(data, code)
        st == IF ~has_permission(RegisterNewUserAPIView_permission_classes, "POST", u)
              THEN AuthorizationFailure
              ELSE IF ~CreateUserSerializer_is_valid(data) THEN ValidationFailure
              ELSE IF ~delivered THEN ServerError
              ELSE HTTP_200_OK
    IN /\ last' = [UserRequest("register", "create", u, "", data) EXCEPT
                      !.status = st,
                      !.found = data.username \in DOMAIN users,
                      !.reused = data.username \in redeemed,
                      !.mailed = IF st = HTTP_200_OK
                                 THEN RegisterNewUserAPIView_mail(saved, data)
                                 ELSE <<>>]
       /\ users' = IF ok THEN saved ELSE users
       /\ redeemed' = IF ok THEN redeemed \ {data.username} ELSE redeemed
       /\ UNCHANGED <<titles, categories, genres, reviews, comments, ids,
                      tokens>>

\* ------------------------------------------------------ CustomJWTTokenView

\* GetJWTTokenSerializer: the username is that of a user, and the code is
\* that user's confirmation code.
GetJWTTokenSerializer_is_valid(data) ==
    /\ data.valid
    /\ data.username \in DOMAIN users
    /\ users[data.username].code = data.code

\* Mutant: post() does not stop at a validation failure.
CustomJWTTokenView_post_unvalidated(data) ==
    IF data.username \notin DOMAIN users THEN ServerError ELSE HTTP_200_OK

\* The status of post(): validation, then User.objects.get, then the token.
CustomJWTTokenView_post(data) ==
    IF ~GetJWTTokenSerializer_is_valid(data) THEN ValidationFailure
    ELSE IF data.username \notin DOMAIN users THEN ServerError
    ELSE HTTP_200_OK

TokenObtain(u, data) ==
    LET st == CustomJWTTokenView_post(data)
    IN /\ last' = [UserRequest("token", "create", u, "", data) EXCEPT
                      !.status = st,
                      !.found = data.username \in DOMAIN users,
                      !.reused = data.username \in redeemed,
                      !.token = IF st = HTTP_200_OK THEN data.username ELSE ""]
       /\ tokens' = IF st = HTTP_200_OK THEN tokens \cup {data.username}
                    ELSE tokens
       /\ redeemed' = IF st = HTTP_200_OK THEN redeemed \cup {data.username}
                      ELSE redeemed
       /\ UNCHANGED <<db, ids>>

\* ------------------------------------------------------------------ bodies

\* The body of a create: a text, and possibly an author and a parent of the
\* client's choosing.
CreateData ==
    {[NoData EXCEPT !.valid = v, !.text = "a", !.author = a[1], !.parent = a[2]] :
        v \in BOOLEAN, a \in {<<"", 0>>, <<"adm", 2>>}}

\* The body of a partial update: a new text.
PatchData == {[NoData EXCEPT !.valid = v, !.text = "b"] : v \in BOOLEAN}

\* The body of a user the administrator creates.
UserData(names, emails) ==
    {[NoData EXCEPT !.username = n, !.email = e, !.role = r] :
        n \in names, e \in emails, r \in Roles}

\* The body of a partial update of a user: an address, or a role, or neither.
UserPatchData(emails) ==
    {[NoData EXCEPT !.email = e] : e \in emails \cup {""}}
        \cup {[NoData EXCEPT !.role = r] : r \in Roles}

RegisterData ==
    {[NoData EXCEPT !.username = n, !.email = e] : n \in RegNames, e \in Emails}

TokenData ==
    {[NoData EXCEPT !.username = n, !.code = c] : n \in Usernames, c \in Codes}

\* ---------------------------------------------------------- specifications

\* A request is taken up when the response to the one before it has left.
Idle == last = NoRequest

Respond ==
    /\ last # NoRequest
    /\ last' = NoRequest
    /\ UNCHANGED <<db, ids, tokens, redeemed>>

StaffUser(role, email) == [role |-> role, email |-> email, code |-> 1]

NoContent ==
    /\ titles = << >>
    /\ categories = {}
    /\ genres = {}
    /\ reviews = << >>
    /\ comments = << >>
    /\ nextTitleId = 1
    /\ nextReviewId = 1
    /\ nextCommentId = 1
    /\ last = NoRequest

\* Registration and token issuance, the user collection and the personal
\* information of the requester, starting from the one administrator that
\* exists before any request.
InitAuth ==
    /\ users = [n \in {"adm"} |-> StaffUser("admin", "adm")]
    /\ tokens = {}
    /\ redeemed = {}
    /\ NoContent

NextAuth ==
    \/ Respond
    \/ Idle /\ \E u \in Requesters, d \in RegisterData, c \in Codes, m \in BOOLEAN :
          RegisterNewUserAPIView_post(u, d, c, m)
    \/ Idle /\ \E u \in Requesters, d \in TokenData : TokenObtain(u, d)
    \/ Idle /\ \E u \in Requesters : UserList(u)
    \/ Idle /\ \E u \in Requesters, n \in Usernames : UserRetrieve(u, n)
    \/ Idle /\ \E u \in Requesters, d \in UserData(RegNames, Emails) : UserCreate(u, d)
    \/ Idle /\ \E u \in Requesters, n \in Usernames, d \in UserPatchData(Emails) :
          UserPartialUpdate(u, n, d)
    \/ Idle /\ \E u \in Requesters, n \in Usernames : UserDestroy(u, n)
    \/ Idle /\ \E u \in Requesters : MeRetrieve(u)
    \/ Idle /\ \E u \in Requesters, d \in UserPatchData(Emails) : MePartialUpdate(u, d)

SpecAuth == InitAuth /\ [][NextAuth]_vars

\* Titles, reviews and comments, and every read, for a fixed population: an
\* administrator, a moderator and two regular users, each holding a token.
InitContent ==
    /\ users = [n \in Staff |->
                  CASE n = "adm" -> StaffUser("admin", "adm")
                    [] n = "mod" -> StaffUser("moderator", "mod")
                    [] n = "u1" -> StaffUser("user", "u1")]
    /\ tokens = Staff
    /\ redeemed = Staff
    /\ titles = [t \in Catalogue |-> [name |-> "a"]]
    /\ nextTitleId = 3
    /\ categories = {}
    /\ genres = {}
    /\ reviews = << >>
    /\ comments = << >>
    /\ nextReviewId = 1
    /\ nextCommentId = 1
    /\ last = NoRequest

NextContent ==
    \/ Respond
    \/ Idle /\ \E u \in Requesters, t \in Catalogue : ReviewList(u, t)
    \/ Idle /\ \E u \in Requesters, t \in Catalogue, pk \in ReviewIds : ReviewRetrieve(u, t, pk)
    \/ Idle /\ \E u \in Requesters, t \in Catalogue, d \in CreateData : ReviewCreate(u, t, d)
    \/ Idle /\ \E u \in Requesters, t \in Catalogue, pk \in ReviewIds, d \in PatchData :
          ReviewPartialUpdate(u, t, pk, d)
    \/ Idle /\ \E u \in Requesters, t \in Catalogue, pk \in ReviewIds : ReviewDestroy(u, t, pk)
    \/ Idle /\ \E u \in Requesters, t \in Catalogue, r \in ReviewIds : CommentList(u, t, r)
    \/ Idle /\ \E u \in Requesters, t \in Catalogue, r \in ReviewIds, pk \in CommentIds :
          CommentRetrieve(u, t, r, pk)
    \/ Idle /\ \E u \in Requesters, t \in Catalogue, r \in ReviewIds, d \in CreateData :
          CommentCreate(u, t, r, d)
    \/ Idle /\ \E u \in Requesters, t \in Catalogue, r \in ReviewIds, pk \in CommentIds,
          d \in PatchData : CommentPartialUpdate(u, t, r, pk, d)
    \/ Idle /\ \E u \in Requesters, t \in Catalogue, r \in ReviewIds, pk \in CommentIds :
          CommentDestroy(u, t, r, pk)
    \/ Idle /\ \E u \in Requesters : TitleList(u)
    \/ Idle /\ \E u \in Requesters, pk \in Catalogue : TitleRetrieve(u, pk)
    \/ Idle /\ \E u \in Requesters, pk \in Catalogue : TitleDestroy(u, pk)
    \/ Idle /\ \E u \in Requesters, s \in Slugs : CategoryViewSet("list", u, s, NoData)
    \/ Idle /\ \E u \in Requesters, s \in Slugs : GenreViewSet("list", u, s, NoData)
    \/ Idle /\ \E u \in Requesters : UserList(u)
    \/ Idle /\ \E u \in Requesters, n \in Usernames : UserRetrieve(u, n)
    \/ Idle /\ \E u \in Requesters : MeRetrieve(u)

SpecContent == InitContent /\ [][NextContent]_vars

\* The catalogue and the user collection under every unsafe method, for the
\* same population.
InitAdmin ==
    /\ users = [n \in Staff |->
                  CASE n = "adm" -> StaffUser("admin", "adm")
                    [] n = "mod" -> StaffUser("moderator", "mod")
                    [] n = "u1" -> StaffUser("user", "u1")]
    /\ tokens = Staff
    /\ redeemed = Staff
    /\ NoContent

TitleData == {[NoData EXCEPT !.valid = v, !.text = x] : v \in BOOLEAN, x \in Texts}

SlugData == {[NoData EXCEPT !.valid = v] : v \in BOOLEAN}

NextAdmin ==
    \/ Respond
    \/ Idle /\ \E u \in Requesters, d \in TitleData : TitleCreate(u, d)
    \/ Idle /\ \E u \in Requesters, pk \in TitleIds, d \in TitleData :
          TitlePartialUpdate(u, pk, d)
    \/ Idle /\ \E u \in Requesters, pk \in TitleIds : TitleDestroy(u, pk)
    \/ Idle /\ \E u \in Requesters, s \in Slugs, d \in SlugData,
                 a \in {"create", "partial_update", "destroy"} :
          CategoryViewSet(a, u, s, d)
    \/ Idle /\ \E u \in Requesters, s \in Slugs, d \in SlugData,
                 a \in {"create", "partial_update", "destroy"} :
          GenreViewSet(a, u, s, d)
    \/ Idle /\ \E u \in Requesters, d \in UserData({"u2"}, {"e1"}) : UserCreate(u, d)
    \/ Idle /\ \E u \in Requesters, n \in Usernames, d \in UserPatchData({}) :
          UserPartialUpdate(u, n, d)
    \/ Idle /\ \E u \in Requesters, n \in Usernames : UserDestroy(u, n)

SpecAdmin == InitAdmin /\ [][NextAdmin]_vars

\* ------------------------------------------------------------------ claims

Unsafe == {"create", "partial_update", "destroy"}
Handled == last # NoRequest

\* C1: a PATCH or DELETE of an existing Review or Comment is denied exactly
\* when the requester is anonymous or a regular user who is not its author
\* (so admin, moderator and author are let through, and then only the body
\* can fail); a POST is denied exactly when the requester is anonymous.
C1_OwnerAdminModerator ==
    (Handled /\ last.view \in {"reviews", "comments"}) =>
        /\ (last.action \in {"partial_update", "destroy"} /\ last.found) =>
              /\ last.status = AuthorizationFailure <=>
                    \/ last.role = "anonymous"
                    \/ (last.role = "user" /\ last.owner # last.user)
              /\ last.status \in {AuthorizationFailure, ValidationFailure, HTTP_200_OK}
              /\ last.status = ValidationFailure => ~last.data.valid
        /\ last.action = "create" =>
              (last.status = AuthorizationFailure <=> last.user = Anon)

\* C1 witness: a regular user was refused the update of a comment written by
\* somebody else.
C1_Witness ==
    /\ last.view = "comments"
    /\ last.action = "partial_update"
    /\ last.found
    /\ last.role = "user"
    /\ last.owner \notin {"", last.user}
    /\ last.status = AuthorizationFailure

\* C2: an unsafe request on Title, Category, Genre or the User collection is
\* denied exactly when the requester's role is not admin.
C2_AdminOnly ==
    (Handled /\ last.view \in {"titles", "categories", "genres", "users"}
             /\ last.action \in Unsafe) =>
        (last.status = AuthorizationFailure <=> last.role # "admin")

\* C2 witness: a moderator was refused the deletion of a title that exists.
C2_Witness ==
    /\ last.view = "titles"
    /\ last.action = "destroy"
    /\ last.found
    /\ last.role = "moderator"
    /\ last.status = AuthorizationFailure

CommentPathUnresolved ==
    /\ Handled
    /\ last.view = "comments"
    /\ (last.r \notin DOMAIN reviews \/ reviews[last.r].title # last.t)
\* The title of the path does not exist.
ReviewPathUnresolved ==
    Handled /\ last.view = "reviews" /\ last.t \notin DOMAIN titles

\* C4 as claimed: a comment request whose review does not belong to its
\* title, and a review request whose title does not exist, fail with
\* not-found.
C4_AlwaysNotFound ==
    (CommentPathUnresolved \/ ReviewPathUnresolved) => last.status = NotFound

\* The status of a request whose path does not resolve.
UnresolvedStatus ==
    IF last.action \in Unsafe /\ last.user = Anon THEN AuthorizationFailure
    ELSE IF last.action = "create" /\ ~last.data.valid THEN ValidationFailure
    ELSE NotFound

\* C4 amended: such a request never succeeds; it fails with not-found unless
\* an unsafe request of the anonymous requester is denied first or the
\* invalid body of a create is rejected first; it returns no comment (no
\* review), and leaves every comment (every review) as it was.
C4_ScopedLookup ==
    /\ []((CommentPathUnresolved \/ ReviewPathUnresolved) =>
            /\ last.status = UnresolvedStatus
            /\ last.returned = {}
            /\ last.created = 0)
    /\ [][(CommentPathUnresolved' => comments' = comments)
          /\ (ReviewPathUnresolved' => reviews' = reviews)]_vars

\* C4 witness: the comments of a review that has one were asked for through
\* another title than the review's, and the answer was not-found.
C4_Witness ==
    /\ last.view = "comments"
    /\ last.action = "list"
    /\ last.r \in DOMAIN reviews
    /\ reviews[last.r].title # last.t
    /\ last.t \in DOMAIN titles
    /\ \E c \in DOMAIN comments : comments[c].review = last.r
    /\ last.status = NotFound

\* C5: a created Review has the requester as author and the title of the
\* path as title; a created Comment has the requester as author and the
\* review of the path, which belongs to the title of the path, as review;
\* whatever the body says.
C5_Stamped ==
    (Handled /\ last.created # 0) =>
        /\ last.view = "reviews" =>
              /\ reviews[last.created].author = last.user
              /\ reviews[last.created].title = last.t
        /\ last.view = "comments" =>
              /\ comments[last.created].author = last.user
              /\ comments[last.created].review = last.r
              /\ reviews[last.r].title = last.t

\* C5 witness: a comment was created from a body naming another author and
\* another parent than the requester and the review of the path.
C5_Witness ==
    /\ last.view = "comments"
    /\ last.created # 0
    /\ last.data.author \notin {"", last.user}
    /\ last.data.parent \notin {0, last.r}

\* The username and code of the token request are those of a user.
TokenPairMatches ==
    /\ last.data.username \in DOMAIN users
    /\ users[last.data.username].code = last.data.code

\* C6: a token is issued exactly when the username is that of a user and the
\* code is that user's; a wrong code and an unknown username fail alike, as a
\* validation failure that carries no token and adds none.
C6_TokenIssuance ==
    /\ []((Handled /\ last.view = "token") =>
            /\ last.status = IF TokenPairMatches THEN HTTP_200_OK
                             ELSE ValidationFailure
            /\ last.token = IF TokenPairMatches THEN last.data.username ELSE "")
    /\ [][(last'.view = "token" /\ last'.status # HTTP_200_OK) =>
              tokens' = tokens]_vars

\* C6 witness: a token was refused to the username of a user with a code
\* that is not that user's.
C6_Witness ==
    /\ last.view = "token"
    /\ last.data.username \in DOMAIN users
    /\ users[last.data.username].code # last.data.code
    /\ last.status = ValidationFailure

\* C7 as claimed: a (username, code) pair that has bought a token buys no
\* second one, unless a registration reissued the code in between.
C7_SingleUse ==
    (Handled /\ last.view = "token" /\ last.reused) => last.status # HTTP_200_OK

\* The registration repeats the username and address of a user that exists
\* and has not yet obtained a token with the code it holds.
ReRegistration ==
    /\ Handled
    /\ last.view = "register"
    /\ last.data.valid
    /\ last.found
    /\ ~last.reused
    /\ users[last.data.username].email = last.data.email

C9_RoleByAdminOnly ==
    [][(last' # NoRequest /\ last'.role # "admin") =>
          /\ \A n \in DOMAIN users \cap DOMAIN users' :
                users'[n].role = users[n].role
          /\ \A n \in DOMAIN users' \ DOMAIN users : users'[n].role = "user"]_vars

\* C9 witness: a regular user's update of its own profile, asking for the
\* admin role, succeeded.
C9_Witness ==
    /\ last.view = "me"
    /\ last.action = "partial_update"
    /\ last.role = "user"
    /\ last.data.role = "admin"
    /\ last.status = HTTP_200_OK
    /\ users[last.user].role = "user"

\* C10 as claimed: a request that ends in a failure leaves the persisted
\* entities as they were.
C10_NoWriteOnFailure ==
    [][(last' # NoRequest /\ last'.status \in Failures) => db' = db]_vars

====
